---- MODULE Spec2Model ----
(***************************************************************************)
(* Model of the pig_latin crate (src/src/lib.rs): the tokenizer and        *)
(* reassembler `translate`, the single-word transformer `translate_word`   *)
(* with its helper `byte_idx_starting_consonants`, and the casing          *)
(* transfer `apply_casing_like`.                                           *)
(*                                                                         *)
(* A string is a sequence of codepoints.  The code indexes strings by      *)
(* UTF-8 BYTE offsets, so every codepoint carries its encoded length and   *)
(* a byte slice that does not fall on codepoint boundaries panics.         *)
(* A fallible computation yields a record [ok, val]; ok = FALSE is a       *)
(* panic.                                                                  *)
(***************************************************************************)
EXTENDS Integers, Sequences, FiniteSets, TLC

VARIABLES pc, english, substring_ranges, last_match_idx, last_is_punct_or_ws,
          translated, calls, panicked,
          english_word, byte_idx_cut_at, text, casing_of, result

vars == << pc, english, substring_ranges, last_match_idx, last_is_punct_or_ws,
           translated, calls, panicked,
           english_word, byte_idx_cut_at, text, casing_of, result >>

(***************************************************************************)
(* Bounds and input alphabets.                                             *)
(***************************************************************************)
MaxTextLen == 4
MaxWordLen == 4
MaxCasingLen == 3

\* codepoints fed to translate: vowels, q/u, multi-byte letters, separators
TextChars == {"a", "u", "q", "Q", "eacute", "eszett", " ", ".", "nbsp"}
\* codepoints of single words (no separator among them)
WordChars == {"a", "u", "U", "q", "Q", "s", "7", "eacute", "eszett"}
\* codepoints of the text that is re-cased
CasingTextChars == {"s", "Q", "7", "eacute", "eszett"}
\* codepoints of the casing source: one per case class
CasingOfChars == {"s", "Q", "7"}

Strs(A, n) == UNION { [1..k -> A] : k \in 0..n }

(***************************************************************************)
(* Codepoint properties (Rust char methods used by the code).              *)
(***************************************************************************)
\* <<lowercase, uppercase>> pairs of single-codepoint case conversions
CasePairs == { <<"a", "A">>, <<"u", "U">>, <<"q", "Q">>, <<"s", "S">>,
               <<"h", "H">>, <<"y", "Y">>, <<"eacute", "EACUTE">> }

\* char::len_utf8: e-acute, sharp s and no-break space take two bytes
len_utf8(c) == IF c \in {"eacute", "EACUTE", "eszett", "nbsp"} THEN 2 ELSE 1

is_lowercase(c) == c = "eszett" \/ \E p \in CasePairs : p[1] = c

is_uppercase(c) == \E p \in CasePairs : p[2] = c

\* char::to_uppercase: sharp s expands to two codepoints
to_uppercase(c) ==
    IF c = "eszett" THEN <<"S", "S">>
    ELSE IF \E p \in CasePairs : p[1] = c
         THEN << (CHOOSE p \in CasePairs : p[1] = c)[2] >>
         ELSE << c >>

to_lowercase(c) ==
    IF \E p \in CasePairs : p[2] = c
    THEN << (CHOOSE p \in CasePairs : p[2] = c)[1] >>
    ELSE << c >>

\* char::to_ascii_lowercase: only A-Z change, E-acute is left alone
to_ascii_lowercase(c) ==
    IF \E p \in CasePairs : p[2] = c /\ len_utf8(c) = 1
    THEN (CHOOSE p \in CasePairs : p[2] = c)[1]
    ELSE c

is_ascii_punctuation(c) == c = "."

is_whitespace(c) == c \in {" ", "nbsp"}

is_punct_or_ws(c) == is_ascii_punctuation(c) \/ is_whitespace(c)

is_vowel(c) == to_ascii_lowercase(c) \in {"a", "e", "i", "o", "u"}

from_char(c) ==
    IF is_lowercase(c) THEN "Lower"
    ELSE IF is_uppercase(c) THEN "Upper"
    ELSE "Eh"

(***************************************************************************)
(* Strings addressed by byte offsets.                                      *)
(***************************************************************************)
Ok(v) == [ok |-> TRUE, val |-> v]
Panic == [ok |-> FALSE, val |-> <<>>]
PanicIdx == [ok |-> FALSE, val |-> 0]

RECURSIVE ByteLen(_)
ByteLen(s) == IF s = <<>> THEN 0 ELSE len_utf8(Head(s)) + ByteLen(Tail(s))

\* byte offset of the end of the k-th codepoint
ByteOffset(s, k) == ByteLen(SubSeq(s, 1, k))

is_char_boundary(s, b) == \E k \in 0..Len(s) : ByteOffset(s, k) = b

CharsBefore(s, b) == CHOOSE k \in 0..Len(s) : ByteOffset(s, k) = b

\* &s[from..to]: panics unless from <= to <= len and both are boundaries
Slice(s, from, to) ==
    IF from <= to /\ is_char_boundary(s, from) /\ is_char_boundary(s, to)
    THEN Ok(SubSeq(s, CharsBefore(s, from) + 1, CharsBefore(s, to)))
    ELSE Panic

(***************************************************************************)
(* apply_casing_like                                                       *)
(***************************************************************************)
casing_loop_init ==
    [result |-> <<>>, text_byte_idx |-> 0, last_edit |-> 0,
     target_case |-> "Eh", consumed |-> 0, exhausted |-> FALSE, ok |-> TRUE]

\* a casing source that falls back to Eh once it is exhausted
casing_of_next_reset(cas, st) ==
    IF st.exhausted THEN st
    ELSE IF st.consumed < Len(cas)
         THEN [st EXCEPT !.target_case = from_char(cas[st.consumed + 1]),
                         !.consumed = @ + 1]
         ELSE [st EXCEPT !.exhausted = TRUE, !.target_case = "Eh"]

\* if !exhausted { match casing_of_chars.next() { ... } }
casing_of_next(cas, st) ==
    IF st.exhausted THEN st
    ELSE IF st.consumed < Len(cas)
         THEN [st EXCEPT !.target_case = from_char(cas[st.consumed + 1]),
                         !.consumed = @ + 1]
         ELSE [st EXCEPT !.exhausted = TRUE]

\* the edit / final flush of one loop iteration
casing_edit(txt, text_char, st) ==
    IF from_char(text_char) # st.target_case /\ st.target_case # "Eh"
    THEN LET pre == IF st.text_byte_idx > st.last_edit
                    THEN Slice(txt, st.last_edit, st.text_byte_idx)
                    ELSE Ok(<<>>)
             conv == CASE st.target_case = "Upper" -> Ok(to_uppercase(text_char))
                       [] st.target_case = "Lower" -> Ok(to_lowercase(text_char))
                       [] OTHER -> Panic
         IN  IF pre.ok /\ conv.ok
             THEN [st EXCEPT !.result = @ \o pre.val \o conv.val,
                             !.last_edit = st.text_byte_idx + len_utf8(text_char)]
             ELSE [st EXCEPT !.ok = FALSE]
    ELSE IF st.text_byte_idx + 1 = ByteLen(txt)
         THEN LET rest == Slice(txt, st.last_edit, st.text_byte_idx + 1)
              IN  IF rest.ok
                  THEN [st EXCEPT !.result = @ \o rest.val]
                  ELSE [st EXCEPT !.ok = FALSE]
         ELSE st

RECURSIVE casing_loop(_, _, _, _)
casing_loop(txt, cas, st, i) ==
    IF i > Len(txt) \/ ~st.ok THEN st
    ELSE LET s1 == casing_of_next(cas, st)
             s2 == casing_edit(txt, txt[i], s1)
         IN  casing_loop(txt, cas,
                         [s2 EXCEPT !.text_byte_idx = @ + len_utf8(txt[i])],
                         i + 1)

apply_casing_like(txt, cas) ==
    LET st == casing_loop(txt, cas, casing_loop_init, 1)
    IN  IF st.ok THEN Ok(st.result) ELSE Panic

(***************************************************************************)
(* translate_word                                                          *)
(***************************************************************************)
\* an empty word counted as consonant-initial instead of panicking
starts_voweled_or_false(word) ==
    IF word = <<>> THEN [ok |-> TRUE, val |-> FALSE]
    ELSE [ok |-> TRUE, val |-> is_vowel(word[1])]

\* word.chars().next().expect("got empty `word`")
starts_voweled(word) ==
    IF word = <<>> THEN [ok |-> FALSE, val |-> FALSE]
    ELSE [ok |-> TRUE, val |-> is_vowel(word[1])]

\* the scan counting codepoints instead of bytes
RECURSIVE consonant_scan_chars(_)
consonant_scan_chars(s) ==
    IF s = <<>> \/ is_vowel(Head(s)) THEN 0
    ELSE 1 + consonant_scan_chars(Tail(s))

\* for char in chars() { if is_vowel { break }; cut += char.len_utf8() }
RECURSIVE consonant_scan(_)
consonant_scan(s) ==
    IF s = <<>> \/ is_vowel(Head(s)) THEN 0
    ELSE len_utf8(Head(s)) + consonant_scan(Tail(s))

byte_idx_starting_consonants(word) ==
    LET cut == consonant_scan(word) IN
    IF ByteLen(word) > cut
    THEN LET head == Slice(word, 0, cut + 1) IN
         IF ~head.ok \/ head.val = <<>> THEN PanicIdx
         ELSE IF to_ascii_lowercase(head.val[1]) = "q"
              THEN IF Len(head.val) < 2 THEN PanicIdx
                   ELSE IF to_ascii_lowercase(head.val[2]) = "u"
                        THEN Ok(cut + len_utf8("u"))
                        ELSE Ok(cut)
              ELSE Ok(cut)
    ELSE Ok(cut)

\* a vowel-initial word whose suffix is re-cased like the word
translate_word_starts_voweled_cased(word) ==
    apply_casing_like(word \o <<"h", "a", "y">>, word).val

translate_word_starts_voweled(word) == word \o <<"h", "a", "y">>

translate_word(word) ==
    LET sv == starts_voweled(word) IN
    IF ~sv.ok THEN Panic
    ELSE IF sv.val THEN Ok(translate_word_starts_voweled(word))
    ELSE LET cut == byte_idx_starting_consonants(word) IN
         IF ~cut.ok THEN Panic
         ELSE LET core == Slice(word, cut.val, ByteLen(word))
                  prefix == Slice(word, 0, cut.val)
              IN  IF ~core.ok \/ ~prefix.ok THEN Panic
                  ELSE apply_casing_like(core.val \o prefix.val \o <<"a", "y">>,
                                         word)

\* the local byte_idx_cut_at of translate_word (0 when it is never set)
cut_of(word) ==
    LET sv == starts_voweled(word) IN
    IF sv.ok /\ ~sv.val /\ byte_idx_starting_consonants(word).ok
    THEN byte_idx_starting_consonants(word).val
    ELSE 0

(***************************************************************************)
(* translate                                                               *)
(***************************************************************************)
\* english.match_indices(..).map(|(i, s)| (i, i + s.len()))
RECURSIVE match_indices(_, _)
match_indices(s, off) ==
    IF s = <<>> THEN <<>>
    ELSE LET rest == match_indices(Tail(s), off + len_utf8(Head(s)))
         IN  IF is_punct_or_ws(Head(s))
             THEN << <<off, off + len_utf8(Head(s))>> >> \o rest
             ELSE rest

\* a flat_map that forgets the boundary closing each separator
RECURSIVE flat_map_starts_only(_)
flat_map_starts_only(ms) ==
    IF ms = <<>> THEN <<>>
    ELSE << <<ms[1][1], TRUE>> >> \o flat_map_starts_only(Tail(ms))

\* flat_map(|(s, e)| once((s, true)).chain(once((e, false))))
RECURSIVE flat_map_ranges(_)
flat_map_ranges(ms) ==
    IF ms = <<>> THEN <<>>
    ELSE << <<ms[1][1], TRUE>>, <<ms[1][2], FALSE>> >>
         \o flat_map_ranges(Tail(ms))

substring_ranges_iter(s) ==
    << <<0, FALSE>> >> \o flat_map_ranges(match_indices(s, 0))
                       \o << <<ByteLen(s), FALSE>> >>

\* a loop that forwards zero-length spans too
skip_span_never(from, to) == FALSE

\* if !(to > from) { continue; }
skip_span(from, to) == ~(to > from)

TranslateStart ==
    /\ pc = "start"
    /\ pc' = "loop"
    /\ substring_ranges' = substring_ranges_iter(english)
    /\ last_match_idx' = 0
    /\ last_is_punct_or_ws' = FALSE
    /\ translated' = <<>>
    /\ UNCHANGED << english, calls, panicked,
                    english_word, byte_idx_cut_at, text, casing_of, result >>

\* the part of an iteration every branch shares
LoopAdvance ==
    /\ pc = "loop"
    /\ substring_ranges # <<>>
    /\ substring_ranges' = Tail(substring_ranges)
    /\ last_match_idx' = Head(substring_ranges)[1]
    /\ last_is_punct_or_ws' = Head(substring_ranges)[2]
    /\ UNCHANGED << english, english_word, byte_idx_cut_at, text, casing_of,
                    result >>

LoopSkip ==
    /\ LoopAdvance
    /\ skip_span(last_match_idx, Head(substring_ranges)[1])
    /\ UNCHANGED << pc, translated, calls, panicked >>

LoopWord ==
    /\ LoopAdvance
    /\ ~skip_span(last_match_idx, Head(substring_ranges)[1])
    /\ ~last_is_punct_or_ws
    /\ LET span == Slice(english, last_match_idx, Head(substring_ranges)[1])
           word == translate_word(span.val)
       IN  /\ calls' = IF span.ok THEN Append(calls, span.val) ELSE calls
           /\ IF span.ok /\ word.ok
              THEN /\ translated' = translated \o word.val
                   /\ UNCHANGED << pc, panicked >>
              ELSE /\ panicked' = TRUE
                   /\ pc' = "panic"
                   /\ UNCHANGED translated

LoopSeparator ==
    /\ LoopAdvance
    /\ ~skip_span(last_match_idx, Head(substring_ranges)[1])
    /\ last_is_punct_or_ws
    /\ LET span == Slice(english, last_match_idx, Head(substring_ranges)[1])
       IN  IF span.ok
           THEN /\ translated' = translated \o span.val
                /\ UNCHANGED << pc, panicked >>
           ELSE /\ panicked' = TRUE
                /\ pc' = "panic"
                /\ UNCHANGED translated
    /\ UNCHANGED calls

TranslateReturn ==
    /\ pc = "loop"
    /\ substring_ranges = <<>>
    /\ pc' = "done"
    /\ UNCHANGED << english, substring_ranges, last_match_idx,
                    last_is_punct_or_ws, translated, calls, panicked,
                    english_word, byte_idx_cut_at, text, casing_of, result >>

Init ==
    /\ pc = "start"
    /\ english \in Strs(TextChars, MaxTextLen)
    /\ substring_ranges = <<>>
    /\ last_match_idx = 0
    /\ last_is_punct_or_ws = FALSE
    /\ translated = <<>>
    /\ calls = <<>>
    /\ panicked = FALSE
    /\ english_word = <<>>
    /\ byte_idx_cut_at = 0
    /\ text = <<>>
    /\ casing_of = <<>>
    /\ result = Ok(<<>>)

Next ==
    \/ TranslateStart
    \/ LoopSkip
    \/ LoopWord
    \/ LoopSeparator
    \/ TranslateReturn

Spec == Init /\ [][Next]_vars

(***************************************************************************)
(* translate_word called on its own.                                       *)
(***************************************************************************)
TranslateWordCall ==
    /\ pc = "word_call"
    /\ pc' = "word_done"
    /\ result' = translate_word(english_word)
    /\ byte_idx_cut_at' = cut_of(english_word)
    /\ UNCHANGED << english, substring_ranges, last_match_idx,
                    last_is_punct_or_ws, translated, calls, panicked,
                    english_word, text, casing_of >>

InitWord ==
    /\ pc = "word_call"
    /\ english_word \in Strs(WordChars, MaxWordLen)
    /\ english = <<>>
    /\ substring_ranges = <<>>
    /\ last_match_idx = 0
    /\ last_is_punct_or_ws = FALSE
    /\ translated = <<>>
    /\ calls = <<>>
    /\ panicked = FALSE
    /\ byte_idx_cut_at = 0
    /\ text = <<>>
    /\ casing_of = <<>>
    /\ result = Ok(<<>>)

NextWord == TranslateWordCall

SpecWord == InitWord /\ [][NextWord]_vars

(***************************************************************************)
(* apply_casing_like called on its own.                                    *)
(***************************************************************************)
ApplyCasingCall ==
    /\ pc = "casing_call"
    /\ pc' = "casing_done"
    /\ result' = apply_casing_like(text, casing_of)
    /\ UNCHANGED << english, substring_ranges, last_match_idx,
                    last_is_punct_or_ws, translated, calls, panicked,
                    english_word, byte_idx_cut_at, text, casing_of >>

InitCasing ==
    /\ pc = "casing_call"
    /\ text \in Strs(CasingTextChars, MaxCasingLen)
    /\ casing_of \in Strs(CasingOfChars, MaxCasingLen) \cup {text}
    /\ english = <<>>
    /\ substring_ranges = <<>>
    /\ last_match_idx = 0
    /\ last_is_punct_or_ws = FALSE
    /\ translated = <<>>
    /\ calls = <<>>
    /\ panicked = FALSE
    /\ english_word = <<>>
    /\ byte_idx_cut_at = 0
    /\ result = Ok(<<>>)

NextCasing == ApplyCasingCall

SpecCasing == InitCasing /\ [][NextCasing]_vars

(***************************************************************************)
(* Properties.                                                             *)
(***************************************************************************)
\* length of the maximal leading run of s whose codepoints are separators
\* (sep = TRUE) or word codepoints (sep = FALSE)
RECURSIVE RunLen(_, _)
RunLen(s, sep) ==
    IF s = <<>> \/ is_punct_or_ws(Head(s)) # sep THEN 0
    ELSE 1 + RunLen(Tail(s), sep)

\* the images of the maximal spans of s, concatenated in order
RECURSIVE SpanImages(_)
SpanImages(s) ==
    IF s = <<>> THEN <<>>
    ELSE LET sep == is_punct_or_ws(Head(s))
             n == RunLen(s, sep)
             span == SubSeq(s, 1, n)
         IN  (IF sep THEN span ELSE translate_word(span).val)
             \o SpanImages(SubSeq(s, n + 1, Len(s)))

\* C1: when translate returns, its output is the in-order concatenation of
\* the images of the maximal spans of the input: a separator span unchanged,
\* a word span replaced by translate_word(span).
C1_TranslateIsSpanwise ==
    pc = "done" => translated = SpanImages(english)

\* two words around two adjacent separators have been translated
C1_Witness ==
    /\ pc = "done"
    /\ Len(english) = 4
    /\ ~is_punct_or_ws(english[1])
    /\ is_punct_or_ws(english[2])
    /\ is_punct_or_ws(english[3])
    /\ ~is_punct_or_ws(english[4])
    /\ Len(calls) = 2

\* C2: no panic is reachable inside translate (the expect, the unwraps, the
\* byte slices and the unreachable arm all succeed), and translate("") = "".
C2_TranslateTotal ==
    /\ ~panicked
    /\ pc # "panic"
    /\ (pc = "done" /\ english = <<>>) => translated = <<>>

\* translate returned after translating a q-initial word and a word that
\* starts with a multi-byte consonant and holds no vowel
C2_Witness ==
    /\ pc = "done"
    /\ \E i \in DOMAIN calls : calls[i][1] \in {"q", "Q"}
    /\ \E i \in DOMAIN calls :
          /\ len_utf8(calls[i][1]) = 2
          /\ \A j \in DOMAIN calls[i] : ~is_vowel(calls[i][j])

\* C3: every argument translate hands to translate_word is non-empty and
\* holds no ASCII-punctuation and no whitespace codepoint.
C3_CallsAreWords ==
    \A i \in DOMAIN calls :
        /\ calls[i] # <<>>
        /\ \A j \in DOMAIN calls[i] : ~is_punct_or_ws(calls[i][j])

\* a text that starts with two adjacent separators and ends with one
C3_Witness ==
    /\ pc = "done"
    /\ Len(english) = 4
    /\ is_punct_or_ws(english[1])
    /\ is_punct_or_ws(english[2])
    /\ ~is_punct_or_ws(english[3])
    /\ is_punct_or_ws(english[4])
    /\ Len(calls) = 1

\* number of leading codepoints of s that are not vowels
RECURSIVE ConsonantRun(_)
ConsonantRun(s) ==
    IF s = <<>> \/ is_vowel(Head(s)) THEN 0 ELSE 1 + ConsonantRun(Tail(s))

\* number of codepoints the "qu" rule relocates
QuPrefixLen(w) ==
    LET run == ConsonantRun(w)
    IN  IF /\ run < Len(w)
           /\ w[run] \in {"q", "Q"}
           /\ w[run + 1] \in {"u", "U"}
        THEN run + 1
        ELSE run

\* C4: for a non-vowel-initial word the relocated prefix is the leading
\* consonant run, extended by the following u/U exactly when the run ends
\* in q/Q (wherever the q sits in the run); "q" gives "qay", "qu" "quay".
C4_QuException ==
    (pc = "word_done" /\ english_word # <<>> /\ ~is_vowel(english_word[1]))
    => /\ byte_idx_cut_at = ByteOffset(english_word, QuPrefixLen(english_word))
       /\ english_word = <<"q">> => result = Ok(<<"q", "a", "y">>)
       /\ english_word = <<"q", "u">> => result = Ok(<<"q", "u", "a", "y">>)

\* C5: a word whose first codepoint is a vowel comes back unchanged with a
\* lowercase "hay" appended, whatever its casing.
C5_VowelInitialAppendsHay ==
    (pc = "word_done" /\ english_word # <<>> /\ is_vowel(english_word[1]))
    => result = Ok(english_word \o <<"h", "a", "y">>)

\* an all-uppercase vowel-initial word was translated
C5_Witness ==
    /\ pc = "word_done"
    /\ english_word = <<"U", "Q", "Q">>
    /\ result.val = <<"U", "Q", "Q", "h", "a", "y">>

\* case class governing position i: that of codepoint i of src, or of its
\* last codepoint once src is used up
ClassAt(src, i) == from_char(src[IF i <= Len(src) THEN i ELSE Len(src)])

\* codepoint c rendered in case class cls
Render(c, cls) ==
    IF cls = "Eh" \/ from_char(c) = cls THEN << c >>
    ELSE IF cls = "Upper" THEN to_uppercase(c)
    ELSE to_lowercase(c)

\* raw re-cased position by position from a non-empty src
RECURSIVE Recase(_, _, _)
Recase(raw, src, i) ==
    IF i > Len(raw) THEN <<>>
    ELSE Render(raw[i], ClassAt(src, i)) \o Recase(raw, src, i + 1)

\* core ++ prefix ++ "ay" for the prefix of k codepoints
RawOf(w, k) ==
    SubSeq(w, k + 1, Len(w)) \o SubSeq(w, 1, k) \o <<"a", "y">>

\* C6: a non-vowel-initial word gives core ++ prefix ++ "ay" (the prefix
\* being the relocated codepoints: the consonant run, or the run and the
\* one codepoint after it) re-cased
\* position by position from the word, the suffix in the class of the
\* word's last codepoint, nothing dropped or duplicated.
C6_ConsonantInitialRecased ==
    (pc = "word_done" /\ english_word # <<>> /\ ~is_vowel(english_word[1]))
    => /\ result.ok
       /\ is_char_boundary(english_word, byte_idx_cut_at)
       /\ CharsBefore(english_word, byte_idx_cut_at)
              >= ConsonantRun(english_word)
       /\ CharsBefore(english_word, byte_idx_cut_at)
              <= ConsonantRun(english_word) + 1
       /\ result.val =
              Recase(RawOf(english_word,
                           CharsBefore(english_word, byte_idx_cut_at)),
                     english_word, 1)

\* "qUaQ" came back as "aQqUAY": mixed casing, suffix cased like the last Q
C6_Witness ==
    /\ pc = "word_done"
    /\ english_word = <<"q", "U", "a", "Q">>
    /\ result = Ok(<<"a", "Q", "q", "U", "A", "Y">>)

\* C7 as stated: translate_word("") returns "" and does not panic.
C7_EmptyWordReturnsEmpty ==
    (pc = "word_done" /\ english_word = <<>>) => result = Ok(<<>>)

\* C7 amended: translate_word("") panics on the expect of starts_voweled,
\* and translate_word is total on every non-empty word.
C7_EmptyWordPanics ==
    pc = "word_done" => (result.ok <=> english_word # <<>>)

\* translate_word was called with the empty string
C7_Witness ==
    /\ pc = "word_done"
    /\ english_word = <<>>
    /\ ~result.ok

\* no codepoint of s has a multi-codepoint case conversion
NoExpansion(s) ==
    \A i \in DOMAIN s :
        Len(to_uppercase(s[i])) = 1 /\ Len(to_lowercase(s[i])) = 1

\* C8: apply_casing_like(text, text) = text for every text without
\* multi-codepoint case conversions, whatever the byte length of its
\* codepoints.
C8_CasingRoundTrip ==
    (pc = "casing_done" /\ casing_of = text /\ NoExpansion(text))
    => result = Ok(text)

\* C9: apply_casing_like(text, "") = text for every text.
C9_EmptyCasingKeepsText ==
    (pc = "casing_done" /\ casing_of = <<>>) => result = Ok(text)

\* C10: with a non-empty casing_of, output position i takes the class of
\* casing_of[i], or of the last codepoint of casing_of beyond its end;
\* surplus casing codepoints are ignored; every codepoint of text appears.
C10_ExtensionRule ==
    (pc = "casing_done" /\ casing_of # <<>>)
    => result = Ok(Recase(text, casing_of, 1))

\* position i of txt is converted and its conversion has several codepoints
Expands(txt, cas, i) ==
    /\ cas # <<>>
    /\ ClassAt(cas, i) # "Eh"
    /\ ClassAt(cas, i) # from_char(txt[i])
    /\ Len(Render(txt[i], ClassAt(cas, i))) > 1

\* C11: where the class taken from casing_of differs from that of text
\* codepoint i and the conversion yields several codepoints, all of them are
\* emitted in place of it, between the re-cased codepoints before it and the
\* re-cased codepoints after it, the casing position advancing by one per
\* text codepoint.
C11_ExpansionPreserved ==
    pc = "casing_done"
    => \A i \in DOMAIN text :
           Expands(text, casing_of, i)
           => result = Ok(Recase(SubSeq(text, 1, i - 1), casing_of, 1)
                          \o Render(text[i], ClassAt(casing_of, i))
                          \o Recase(text, casing_of, i + 1))

====
